---- MODULE Spec2Model ----
(***************************************************************************)
(* A model of tgt's event parser/formatter (src/enums/event.rs) and of the *)
(* Tui orchestrator (src/tui.rs).                                          *)
(*                                                                         *)
(* Text is a sequence of characters; a character is a one-character string *)
(* except for the two non-ASCII characters, which are written by their     *)
(* code point ("U+00E9", "U+20AC") and carry their UTF-8 length.           *)
(* Option<T> is <<>> (None) or <<x>> (Some(x)).                            *)
(***************************************************************************)
EXTENDS Integers, Sequences, FiniteSets, TLC

\* ------------------------------------------------------------------------
\* Bounds of the model
\* ------------------------------------------------------------------------

\* The largest number of '+'-separated segments before the key segment.
MaxMods == 2

\* ------------------------------------------------------------------------
\* Values
\* ------------------------------------------------------------------------

None == <<>>

Some(x) == <<x>>

Ok(x) == <<"Ok", x>>

Err(e) == <<"Err", e>>

IsOk(r) == r[1] = "Ok"

\* AppError::InvalidEvent(String)
InvalidEvent(s) == <<"InvalidEvent", s>>

\* Event::Key(KeyCode, KeyModifiers)
Key(code, modifiers) == <<"Key", code, modifiers>>

\* KeyCode::Char(c)
Char(c) == <<"Char", c>>

\* crossterm's KeyModifiers bits
NONE == 0

SHIFT == 1

CONTROL == 2

ALT == 4

SUPER == 8

HYPER == 16

META == 32

\* The characters of the model that are not ASCII.
NonAscii == {"U+00E9", "U+20AC"}

\* char::is_ascii
is_ascii(c) == c \notin NonAscii

\* char::len_utf8
len_utf8(c) ==
  CASE c = "U+00E9" -> 2
    [] c = "U+20AC" -> 3
    [] OTHER -> 1

\* str::len: the length in bytes
RECURSIVE len(_)
len(s) == IF s = <<>> THEN 0 ELSE len_utf8(Head(s)) + len(Tail(s))

\* KeyModifiers' BitOr on the u8 bits
RECURSIVE BitOr(_, _)
BitOr(a, b) ==
  IF a = 0 THEN b
  ELSE IF b = 0 THEN a
  ELSE (IF a % 2 = 1 \/ b % 2 = 1 THEN 1 ELSE 0) + 2 * BitOr(a \div 2, b \div 2)

\* str::split(char): the pieces of s between the occurrences of sep
RECURSIVE split(_, _)
split(s, sep) ==
  IF \A i \in 1..Len(s) : s[i] # sep
  THEN <<s>>
  ELSE LET i == CHOOSE k \in 1..Len(s) : s[k] = sep /\ \A j \in 1..(k - 1) : s[j] # sep
       IN  <<SubSeq(s, 1, i - 1)>> \o split(SubSeq(s, i + 1, Len(s)), sep)

\* ------------------------------------------------------------------------
\* Event::event_with_modifiers
\* ------------------------------------------------------------------------

\* The arm for every string that is no named key, without the length test.
CharKeyNoLenTest(e, modifiers) ==
  IF e # <<>> /\ is_ascii(Head(e))
  THEN Ok(Key(Char(Head(e)), modifiers))
  ELSE Err(InvalidEvent(e))

\* The arm `e => ...`: one ASCII character is a character key.
CharKey(e, modifiers) ==
  IF len(e) = 1 /\ is_ascii(Head(e))
  THEN Ok(Key(Char(Head(e)), modifiers))
  ELSE Err(InvalidEvent(e))

event_with_modifiers(s, modifiers) ==
  CASE s = <<"b", "a", "c", "k", "s", "p", "a", "c", "e">> -> Ok(Key(<<"Backspace">>, modifiers))
    [] s = <<"e", "n", "t", "e", "r">> -> Ok(Key(<<"Enter">>, modifiers))
    [] s = <<"l", "e", "f", "t">> -> Ok(Key(<<"Left">>, modifiers))
    [] s = <<"r", "i", "g", "h", "t">> -> Ok(Key(<<"Right">>, modifiers))
    [] s = <<"u", "p">> -> Ok(Key(<<"Up">>, modifiers))
    [] s = <<"d", "o", "w", "n">> -> Ok(Key(<<"Down">>, modifiers))
    [] s = <<"h", "o", "m", "e">> -> Ok(Key(<<"Home">>, modifiers))
    [] s = <<"e", "n", "d">> -> Ok(Key(<<"End">>, modifiers))
    [] s = <<"p", "a", "g", "e", "_", "u", "p">> -> Ok(Key(<<"PageUp">>, modifiers))
    [] s = <<"p", "a", "g", "e", "_", "d", "o", "w", "n">> -> Ok(Key(<<"PageDown">>, modifiers))
    [] s = <<"t", "a", "b">> -> Ok(Key(<<"Tab">>, modifiers))
    [] s = <<"b", "a", "c", "k", "_", "t", "a", "b">> -> Ok(Key(<<"BackTab">>, modifiers))
    [] s = <<"d", "e", "l", "e", "t", "e">> -> Ok(Key(<<"Delete">>, modifiers))
    [] s = <<"i", "n", "s", "e", "r", "t">> -> Ok(Key(<<"Insert">>, modifiers))
    [] s = <<"n", "u", "l", "l">> -> Ok(Key(<<"Null">>, modifiers))
    [] s = <<"e", "s", "c">> -> Ok(Key(<<"Esc">>, modifiers))
    [] s = <<"f", "1">> -> Ok(Key(<<"F", 1>>, modifiers))
    [] s = <<"f", "2">> -> Ok(Key(<<"F", 2>>, modifiers))
    [] s = <<"f", "3">> -> Ok(Key(<<"F", 3>>, modifiers))
    [] s = <<"f", "4">> -> Ok(Key(<<"F", 4>>, modifiers))
    [] s = <<"f", "5">> -> Ok(Key(<<"F", 5>>, modifiers))
    [] s = <<"f", "6">> -> Ok(Key(<<"F", 6>>, modifiers))
    [] s = <<"f", "7">> -> Ok(Key(<<"F", 7>>, modifiers))
    [] s = <<"f", "8">> -> Ok(Key(<<"F", 8>>, modifiers))
    [] s = <<"f", "9">> -> Ok(Key(<<"F", 9>>, modifiers))
    [] s = <<"f", "1", "0">> -> Ok(Key(<<"F", 10>>, modifiers))
    [] s = <<"f", "1", "1">> -> Ok(Key(<<"F", 11>>, modifiers))
    [] s = <<"f", "1", "2">> -> Ok(Key(<<"F", 12>>, modifiers))
    [] OTHER -> CharKey(s, modifiers)

\* ------------------------------------------------------------------------
\* impl FromStr for Event
\* ------------------------------------------------------------------------

\* A closure that also takes the capitalised name of the control modifier.
ModifierOfAnyCase(m) ==
  CASE m = <<"c", "t", "r", "l">> -> CONTROL
    [] m = <<"C", "t", "r", "l">> -> CONTROL
    [] m = <<"a", "l", "t">> -> ALT
    [] m = <<"s", "h", "i", "f", "t">> -> SHIFT
    [] m = <<"s", "u", "p", "e", "r">> -> SUPER
    [] m = <<"m", "e", "t", "a">> -> META
    [] m = <<"h", "y", "p", "e", "r">> -> HYPER
    [] OTHER -> NONE

\* The closure of `.map(...)`: a modifier name's bits, NONE for any other name.
ModifierOf(m) ==
  CASE m = <<"c", "t", "r", "l">> -> CONTROL
    [] m = <<"a", "l", "t">> -> ALT
    [] m = <<"s", "h", "i", "f", "t">> -> SHIFT
    [] m = <<"s", "u", "p", "e", "r">> -> SUPER
    [] m = <<"m", "e", "t", "a">> -> META
    [] m = <<"h", "y", "p", "e", "r">> -> HYPER
    [] OTHER -> NONE

\* A fold that keeps the last modifier only.
RECURSIVE FoldLastWins(_, _)
FoldLastWins(acc, ms) ==
  IF ms = <<>> THEN acc ELSE FoldLastWins(ModifierOf(Head(ms)), Tail(ms))

\* `.fold(KeyModifiers::NONE, |acc, m| acc | m)` over the mapped names
RECURSIVE FoldModifiers(_, _)
FoldModifiers(acc, ms) ==
  IF ms = <<>> THEN acc ELSE FoldModifiers(BitOr(acc, ModifierOf(Head(ms))), Tail(ms))

from_str(s) ==
  LET modifiers == split(s, "+")
  IN  IF Len(modifiers) > 1
      THEN LET key == modifiers[Len(modifiers)]
               folded == FoldModifiers(NONE, SubSeq(modifiers, 1, Len(modifiers) - 1))
           IN  event_with_modifiers(key, folded)
      ELSE event_with_modifiers(s, NONE)

\* ------------------------------------------------------------------------
\* impl Display for Event (the Event::Key arm; from_str yields no other event)
\* ------------------------------------------------------------------------

Digit(d) ==
  CASE d = 0 -> "0" [] d = 1 -> "1" [] d = 2 -> "2" [] d = 3 -> "3" [] d = 4 -> "4"
    [] d = 5 -> "5" [] d = 6 -> "6" [] d = 7 -> "7" [] d = 8 -> "8" [] d = 9 -> "9"

\* `{}` of an unsigned integer: its decimal digits
RECURSIVE DecStr(_)
DecStr(n) == IF n < 10 THEN <<Digit(n)>> ELSE DecStr(n \div 10) \o <<Digit(n % 10)>>

\* format!("{:?}", key) of a KeyCode that is no Char: the derived Debug form
DebugKeyCode(key) ==
  CASE key = <<"Backspace">> -> <<"B", "a", "c", "k", "s", "p", "a", "c", "e">>
    [] key = <<"Enter">> -> <<"E", "n", "t", "e", "r">>
    [] key = <<"Left">> -> <<"L", "e", "f", "t">>
    [] key = <<"Right">> -> <<"R", "i", "g", "h", "t">>
    [] key = <<"Up">> -> <<"U", "p">>
    [] key = <<"Down">> -> <<"D", "o", "w", "n">>
    [] key = <<"Home">> -> <<"H", "o", "m", "e">>
    [] key = <<"End">> -> <<"E", "n", "d">>
    [] key = <<"PageUp">> -> <<"P", "a", "g", "e", "U", "p">>
    [] key = <<"PageDown">> -> <<"P", "a", "g", "e", "D", "o", "w", "n">>
    [] key = <<"Tab">> -> <<"T", "a", "b">>
    [] key = <<"BackTab">> -> <<"B", "a", "c", "k", "T", "a", "b">>
    [] key = <<"Delete">> -> <<"D", "e", "l", "e", "t", "e">>
    [] key = <<"Insert">> -> <<"I", "n", "s", "e", "r", "t">>
    [] key = <<"Null">> -> <<"N", "u", "l", "l">>
    [] key = <<"Esc">> -> <<"E", "s", "c">>
    [] key[1] = "F" -> <<"F", "(">> \o DecStr(key[2]) \o <<")">>

HasBit(m, b) == (m \div b) % 2 = 1

\* The names of the flags set in m, in the order crossterm declares them,
\* each but the first preceded by " | ".
RECURSIVE FlagNames(_, _, _)
FlagNames(m, flags, first) ==
  IF flags = <<>> THEN <<>>
  ELSE LET f == Head(flags)
       IN  IF HasBit(m, f[1])
           THEN (IF first THEN <<>> ELSE <<" ", "|", " ">>) \o f[2]
                  \o FlagNames(m, Tail(flags), FALSE)
           ELSE FlagNames(m, Tail(flags), first)

\* format!("{:?}", modifiers): the Debug form bitflags derives
DebugModifiers(m) ==
  <<"K", "e", "y", "M", "o", "d", "i", "f", "i", "e", "r", "s", "(">>
    \o FlagNames(m, << <<SHIFT, <<"S", "H", "I", "F", "T">> >>,
                       <<CONTROL, <<"C", "O", "N", "T", "R", "O", "L">> >>,
                       <<ALT, <<"A", "L", "T">> >>,
                       <<SUPER, <<"S", "U", "P", "E", "R">> >>,
                       <<HYPER, <<"H", "Y", "P", "E", "R">> >>,
                       <<META, <<"M", "E", "T", "A">> >> >>, TRUE)
    \o <<")">>

\* `let k = ...`: a character key is the character, any other its Debug form
KeyText(key) == IF key[1] = "Char" THEN <<key[2]>> ELSE DebugKeyCode(key)

\* `match *modifiers`: what is written before the key
ModifierPrefix(modifiers) ==
  CASE modifiers = NONE -> <<>>
    [] modifiers = CONTROL -> <<"C", "t", "r", "l", "+">>
    [] modifiers = ALT -> <<"A", "l", "t", "+">>
    [] modifiers = SHIFT -> <<"S", "h", "i", "f", "t", "+">>
    [] modifiers = SUPER -> <<"S", "u", "p", "e", "r", "+">>
    [] modifiers = META -> <<"M", "e", "t", "a", "+">>
    [] modifiers = HYPER -> <<"H", "y", "p", "e", "r", "+">>
    [] OTHER -> DebugModifiers(modifiers) \o <<"+">>

\* Display::fmt of Event::Key(key, modifiers)
fmt(event) == ModifierPrefix(event[3]) \o KeyText(event[2])

\* ------------------------------------------------------------------------
\* Tui: the values it handles
\* ------------------------------------------------------------------------

\* components::SMALL_AREA_HEIGHT and components::SMALL_AREA_WIDTH (u16), which
\* tui.rs imports; the module components that sets them is not among the
\* sources modelled here. The layout properties below do not depend on the
\* values, but for the scenario of height 40, which needs
\* SMALL_AREA_HEIGHT + 5 < 40.
SMALL_AREA_HEIGHT == 20

SMALL_AREA_WIDTH == 100

\* The height of an enabled title or status band.
BandLength == 3

\* The margin added to SMALL_AREA_HEIGHT in both height tests.
BandMargin == 5

\* The number of distinct frame buffer contents is MaxContent + 1.
MaxContent == 2

\* The number of values the 64-bit digest takes in the model; fewer than the
\* contents, so that two contents can have one digest.
HashBuckets == 2

\* ComponentName
ComponentName == {"TitleBar", "CoreWindow", "StatusBar"}

\* The order of `components_iter` in Tui::new.
RegistrationOrder == <<"TitleBar", "CoreWindow", "StatusBar">>

\* Every order in which a HashMap of the three names can iterate.
IterationOrders ==
  {o \in [1..3 -> ComponentName] : \A i, j \in 1..3 : o[i] = o[j] => i = j}

\* ratatui's Rect
Rect(x, y, width, height) == [x |-> x, y |-> y, width |-> width, height |-> height]

\* The areas a caller draws into: heights below SMALL_AREA_HEIGHT, at and
\* just above SMALL_AREA_HEIGHT + 5, and 40; widths on both sides of
\* SMALL_AREA_WIDTH.
Areas ==
  { Rect(0, 0, SMALL_AREA_WIDTH - 1, SMALL_AREA_HEIGHT - 10),
    Rect(0, 0, SMALL_AREA_WIDTH, SMALL_AREA_HEIGHT + BandMargin),
    Rect(0, 0, SMALL_AREA_WIDTH - 1, SMALL_AREA_HEIGHT + BandMargin + 1),
    Rect(0, 0, SMALL_AREA_WIDTH, 40) }

FrameContents == 0..MaxContent

\* The senders a caller registers.
Senders == {"tx"}

\* An UpdateArea that carries the default Rect instead of the area.
UpdateAreaDefault(area) == <<"UpdateArea", Rect(0, 0, 0, 0)>>

\* Action: UpdateArea(Rect) and one other variant
UpdateArea(area) == <<"UpdateArea", area>>

Actions == {<<"Quit">>, UpdateArea(Rect(0, 0, SMALL_AREA_WIDTH, 40))}

\* The events a caller passes to handle_events.
Events == {None, Some(Key(Char("q"), NONE))}

Unit == <<"()">>

\* The error of a component whose hook fails.
ComponentError(name) == <<"ComponentError", name>>

\* What the hooks of the three components return in one call of the Tui:
\* all succeed, or one of them fails.
HookOutcomes ==
  {ok \in [ComponentName -> BOOLEAN] : Cardinality({n \in ComponentName : ~ok[n]}) <= 1}

\* What CoreWindow::handle_events can return.
CoreWindowResults ==
  {Ok(Some(<<"Quit">>)), Ok(None), Err(ComponentError("CoreWindow"))}

\* One call of a component's method: the component, the method, its
\* argument and what it returned.
Call(name, method, argument, returned) == <<name, method, argument, returned>>

\* DefaultHasher over the frame: a deterministic digest that is not injective
Hash(content) == content % HashBuckets

\* ------------------------------------------------------------------------
\* State
\* ------------------------------------------------------------------------

VARIABLES
  app_context,     \* Tui.app_context: the two flags of app_config()
  action_tx,       \* Tui.action_tx: Option<UnboundedSender<Action>>
  channel,         \* the actions the Tui itself sent through action_tx
  components,      \* Tui.components: ComponentName -> the component's state
  iter_order,      \* the order in which the HashMap `components` iterates
  hash_frame,      \* Tui.hash_frame: Option<u64>
  hashed_content,  \* the frame content whose digest hash_frame holds
  op,              \* the last call made on the Tui
  arg,             \* its arguments
  trace,           \* the component calls it made, in order
  result,          \* what it returned
  layout,          \* the main_layout it computed, if it computed one
  panicked,        \* whether an unwrap()/panic!() on a missing component ran
  segs,            \* the '+'-free pieces the parser's input is made of
  input,           \* the parser's input: the pieces joined by '+'
  parsed,          \* Option<Result<Event, AppError>>: what from_str returned
  shown            \* Option<String>: what Display made of the parsed event

tui_vars ==
  <<app_context, action_tx, channel, components, iter_order, hash_frame,
    hashed_content, op, arg, trace, result, layout, panicked>>

event_vars == <<segs, input, parsed, shown>>

vars == <<tui_vars, event_vars>>

\* ------------------------------------------------------------------------
\* Tui::new
\* ------------------------------------------------------------------------

\* A component as the Tui sees it: the sender its registration hook kept
\* and, for the StatusBar, which renders the size, the area of the last
\* UpdateArea its update hook received.
NewComponent == [handle |-> None, area |-> None]

\* `components_iter.into_iter().collect()` with the StatusBar entry keyed
\* ComponentName::TitleBar: the later entry replaces the earlier one.
CollectDuplicateKey == [n \in {"TitleBar", "CoreWindow"} |-> NewComponent]

\* `components_iter.into_iter().collect()`: one entry per name of the vector
Collect == [n \in {RegistrationOrder[i] : i \in 1..Len(RegistrationOrder)} |-> NewComponent]

TuiNew ==
  /\ app_context \in [show_title_bar : BOOLEAN, show_status_bar : BOOLEAN]
  /\ action_tx = None
  /\ channel = <<>>
  /\ components = Collect
  /\ iter_order \in IterationOrders
  /\ hash_frame = None
  /\ hashed_content = None
  /\ op = "new"
  /\ arg = <<>>
  /\ trace = <<>>
  /\ result = Ok(Unit)
  /\ layout = None
  /\ panicked = FALSE

\* ------------------------------------------------------------------------
\* The component hooks and the HashMap
\* ------------------------------------------------------------------------

\* Component::update: an UpdateArea leaves its area in the StatusBar
ComponentUpdate(name, c, action) ==
  IF name = "StatusBar" /\ action[1] = "UpdateArea"
  THEN [c EXCEPT !.area = Some(action[2])]
  ELSE c

\* An iteration that visits the entries in the reverse order.
IterMutReversed(comps, order) ==
  LET o == SelectSeq(order, LAMBDA n : n \in DOMAIN comps)
  IN  [i \in 1..Len(o) |-> o[Len(o) + 1 - i]]

\* An iteration that stops before the last entry.
IterMutShort(comps, order) ==
  LET o == SelectSeq(order, LAMBDA n : n \in DOMAIN comps)
  IN  SubSeq(o, 1, Len(o) - 1)

\* HashMap::iter_mut: every key of the map once, in the map's order
iter_mut(comps, order) == SelectSeq(order, LAMBDA n : n \in DOMAIN comps)

\* An iteration that runs the closure on every entry, failed or not.
ForEachAll(names, ok) == names

\* The prefix of an iteration that try_for_each runs: up to and including
\* the first entry whose closure fails.
RECURSIVE try_for_each(_, _)
try_for_each(names, ok) ==
  IF names = <<>> THEN <<>>
  ELSE IF ok[Head(names)] THEN <<Head(names)>> \o try_for_each(Tail(names), ok)
  ELSE <<Head(names)>>

Range(f) == {f[i] : i \in DOMAIN f}

\* ------------------------------------------------------------------------
\* Tui::register_action_handler
\* ------------------------------------------------------------------------

\* The assignment of action_tx placed after the `?` of the iteration.
ActionTxAfterSuccess(current, tx, all_ok) == IF all_ok THEN Some(tx) ELSE current

\* `self.action_tx = Some(tx.clone())`, which runs before the iteration:
\* the field holds the sender whatever the hooks return
ActionTxAfter(current, tx, all_ok) == Some(tx)

register_action_handler(tx, hook_ok) ==
  LET invoked == try_for_each(iter_mut(components, iter_order), hook_ok)
      failed == {n \in Range(invoked) : ~hook_ok[n]}
  IN  /\ ~panicked
      /\ action_tx' = ActionTxAfter(action_tx, tx, failed = {})
      /\ components' =
           [n \in DOMAIN components |->
              IF n \in Range(invoked) /\ hook_ok[n]
              THEN [components[n] EXCEPT !.handle = Some(tx)]
              ELSE components[n]]
      /\ trace' =
           [i \in 1..Len(invoked) |->
              Call(invoked[i], "register_action_handler", tx,
                   IF hook_ok[invoked[i]] THEN Ok(Unit)
                   ELSE Err(ComponentError(invoked[i])))]
      /\ result' =
           IF failed = {} THEN Ok(Unit)
           ELSE Err(ComponentError(CHOOSE n \in failed : TRUE))
      /\ op' = "register_action_handler"
      /\ arg' = <<tx>>
      /\ layout' = None
      /\ UNCHANGED <<app_context, channel, iter_order, hash_frame, hashed_content,
                     panicked>>

\* ------------------------------------------------------------------------
\* Tui::handle_events
\* ------------------------------------------------------------------------

\* The events go to every component.
EventTargetsAll == iter_mut(components, iter_order)

\* `.get_mut(&ComponentName::CoreWindow)`: the one component that sees events
EventTargets == <<"CoreWindow">>

handle_events(event, returned) ==
  /\ ~panicked
  /\ IF "CoreWindow" \notin DOMAIN components
     THEN /\ panicked' = TRUE
          /\ trace' = <<>>
          /\ result' = result
     ELSE /\ panicked' = FALSE
          /\ trace' =
               [i \in 1..Len(EventTargets) |->
                  Call(EventTargets[i], "handle_events", event, returned)]
          /\ result' = returned
  /\ op' = "handle_events"
  /\ arg' = <<event>>
  /\ layout' = None
  /\ UNCHANGED <<app_context, action_tx, channel, components, iter_order,
                 hash_frame, hashed_content>>

\* ------------------------------------------------------------------------
\* Tui::update
\* ------------------------------------------------------------------------

update(action) ==
  LET visited == iter_mut(components, iter_order)
  IN  /\ ~panicked
      /\ components' =
           [n \in DOMAIN components |->
              IF n \in Range(visited) THEN ComponentUpdate(n, components[n], action)
              ELSE components[n]]
      /\ trace' = [i \in 1..Len(visited) |-> Call(visited[i], "update", action, Unit)]
      /\ result' = Unit
      /\ op' = "update"
      /\ arg' = <<action>>
      /\ layout' = None
      /\ UNCHANGED <<app_context, action_tx, channel, iter_order, hash_frame,
                     hashed_content, panicked>>

\* ------------------------------------------------------------------------
\* Tui::draw
\* ------------------------------------------------------------------------

\* A test that also skips the pass when no digest is stored.
SkipDrawWhenNone(current, new_hash) == current = None \/ current[1] = new_hash

\* A test that skips the pass when the digests differ.
SkipDrawWhenDifferent(current, new_hash) == current # None /\ current[1] # new_hash

\* `if let Some(current_hash) = self.hash_frame` and the comparison: whether
\* the pass is skipped
SkipDraw(current, new_hash) == current # None /\ current[1] = new_hash

\* What `&mut dyn Any` refers to: get_mut yields `&mut Box<dyn Component>`,
\* and the coercion to `&mut dyn Any` unsizes that Box itself.
AnyTypeOfCoreWindowEntry == "Box<dyn Component>"

\* <dyn Any>::downcast_mut::<T>: Some only if the value is a T
downcast_mut(any_type, target_type) ==
  IF any_type = target_type THEN Some(target_type) ELSE None

\* The header length with the height test admitting SMALL_AREA_HEIGHT + 5.
HeaderLengthInclusive(ctx, area) ==
  IF ctx.show_title_bar
  THEN IF area.height >= SMALL_AREA_HEIGHT + BandMargin THEN BandLength ELSE 0
  ELSE 0

\* The first Constraint::Length
HeaderLength(ctx, area) ==
  IF ctx.show_title_bar
  THEN IF area.height > SMALL_AREA_HEIGHT + BandMargin THEN BandLength ELSE 0
  ELSE 0

\* The second Constraint::Length
FooterLength(ctx, area) ==
  IF ctx.show_status_bar
  THEN IF area.height > SMALL_AREA_HEIGHT + BandMargin THEN BandLength ELSE 0
  ELSE 0

Minimum(a, b) == IF a <= b THEN a ELSE b

\* A split that treats the Min band as a Length band.
LayoutSplitMinAsLength(area, header, min, footer) ==
  LET body == Minimum(min, area.height)
      h == Minimum(header, area.height - body)
      f == Minimum(footer, area.height - body - h)
  IN  << Rect(area.x, area.y, area.width, h),
         Rect(area.x, area.y + h, area.width, body),
         Rect(area.x, area.y + h + body, area.width, f) >>

\* Layout::new(Vertical, [Length(header), Min(min), Length(footer)]).split(area):
\* the three bands fill the area from top to bottom; the Length bands get
\* their length and the Min band the rest when the area has room for all
\* three, and otherwise the Min band comes first.
LayoutSplit(area, header, min, footer) ==
  LET body == IF header + min + footer <= area.height
              THEN area.height - header - footer
              ELSE Minimum(min, area.height)
      h == Minimum(header, area.height - body)
      f == area.height - body - h
  IN  << Rect(area.x, area.y, area.width, h),
         Rect(area.x, area.y + h, area.width, body),
         Rect(area.x, area.y + h + body, area.width, f) >>

\* What the frame buffer can hold after the draw calls. A pass that fails
\* stores no digest, so what it painted is not told apart.
PaintedBy(draw_ok) ==
  IF \A n \in ComponentName : draw_ok[n] THEN FrameContents ELSE {0}

\* The draw calls with the StatusBar drawn first.
DrawOrderStatusBarFirst == <<"StatusBar", "TitleBar", "CoreWindow">>

\* The order of the three draw calls of Tui::draw.
DrawOrder == <<"TitleBar", "CoreWindow", "StatusBar">>

\* The UpdateArea handed to every component of the map.
AreaRecipientsAll == iter_mut(components, iter_order)

\* `.get_mut(&ComponentName::StatusBar)`: the one component whose update
\* hook gets the UpdateArea of a pass
AreaRecipients == <<"StatusBar">>

\* The digest stored whether or not a draw call failed.
HashAfterDrawAlways(current, all_ok, painted) == Some(Hash(painted))

\* `self.hash_frame = Some(...)` at the end of the pass, which a `?` of a
\* failed draw call returns before
HashAfterDraw(current, all_ok, painted) ==
  IF all_ok THEN Some(Hash(painted)) ELSE current

draw(presented, area, draw_ok, painted) ==
  LET new_hash == Hash(presented)
      main_layout ==
        LayoutSplit(area, HeaderLength(app_context, area), SMALL_AREA_HEIGHT,
                    FooterLength(app_context, area))
      small_area ==
        IF downcast_mut(AnyTypeOfCoreWindowEntry, "CoreWindow") # None
        THEN <<Call("CoreWindow", "with_small_area", area.width < SMALL_AREA_WIDTH, Unit)>>
        ELSE <<>>
      drawn == try_for_each(DrawOrder, draw_ok)
      failed == {n \in Range(drawn) : ~draw_ok[n]}
  IN  /\ ~panicked
      /\ op' = "draw"
      /\ arg' = <<presented, area>>
      /\ UNCHANGED <<app_context, action_tx, channel, iter_order>>
      /\ IF SkipDraw(hash_frame, new_hash)
         THEN /\ trace' = <<>>
              /\ result' = Ok(Unit)
              /\ layout' = None
              /\ UNCHANGED <<components, hash_frame, hashed_content, panicked>>
         ELSE IF ~(ComponentName \subseteq DOMAIN components)
         THEN /\ panicked' = TRUE
              /\ trace' = <<>>
              /\ layout' = None
              /\ UNCHANGED <<components, hash_frame, hashed_content, result>>
         ELSE /\ components' =
                   [n \in DOMAIN components |->
                      IF n \in Range(AreaRecipients)
                      THEN ComponentUpdate(n, components[n], UpdateArea(area))
                      ELSE components[n]]
              /\ layout' = Some(main_layout)
              /\ trace' =
                   [i \in 1..Len(AreaRecipients) |->
                      Call(AreaRecipients[i], "update", UpdateArea(area), Unit)]
                     \o small_area
                     \o [i \in 1..Len(drawn) |->
                           Call(drawn[i], "draw", main_layout[i],
                                IF draw_ok[drawn[i]] THEN Ok(Unit)
                                ELSE Err(ComponentError(drawn[i])))]
              /\ hash_frame' = HashAfterDraw(hash_frame, failed = {}, painted)
              /\ IF failed = {}
                 THEN /\ hashed_content' = Some(painted)
                      /\ result' = Ok(Unit)
                 ELSE /\ result' = Err(ComponentError(CHOOSE n \in failed : TRUE))
                      /\ UNCHANGED hashed_content
              /\ UNCHANGED panicked

\* ------------------------------------------------------------------------
\* The Tui and its callers
\* ------------------------------------------------------------------------

Init ==
  /\ TuiNew
  /\ segs = <<>>
  /\ input = <<>>
  /\ parsed = None
  /\ shown = None

RegisterActionHandler ==
  \E tx \in Senders, hook_ok \in HookOutcomes :
    register_action_handler(tx, hook_ok) /\ UNCHANGED event_vars

HandleEvents ==
  \E event \in Events, returned \in CoreWindowResults :
    handle_events(event, returned) /\ UNCHANGED event_vars

Update == \E action \in Actions : update(action) /\ UNCHANGED event_vars

Draw ==
  \E presented \in FrameContents, area \in Areas, draw_ok \in HookOutcomes :
    \E painted \in PaintedBy(draw_ok) :
      draw(presented, area, draw_ok, painted) /\ UNCHANGED event_vars

Next == RegisterActionHandler \/ HandleEvents \/ Update \/ Draw

Spec == Init /\ [][Next]_vars

\* ------------------------------------------------------------------------
\* The parser and the formatter and their callers
\* ------------------------------------------------------------------------

\* The 28 key names of event_with_modifiers.
NamedKeys ==
  { <<"b", "a", "c", "k", "s", "p", "a", "c", "e">>,
    <<"e", "n", "t", "e", "r">>,
    <<"l", "e", "f", "t">>,
    <<"r", "i", "g", "h", "t">>,
    <<"u", "p">>,
    <<"d", "o", "w", "n">>,
    <<"h", "o", "m", "e">>,
    <<"e", "n", "d">>,
    <<"p", "a", "g", "e", "_", "u", "p">>,
    <<"p", "a", "g", "e", "_", "d", "o", "w", "n">>,
    <<"t", "a", "b">>,
    <<"b", "a", "c", "k", "_", "t", "a", "b">>,
    <<"d", "e", "l", "e", "t", "e">>,
    <<"i", "n", "s", "e", "r", "t">>,
    <<"n", "u", "l", "l">>,
    <<"e", "s", "c">>,
    <<"f", "1">>,
    <<"f", "2">>,
    <<"f", "3">>,
    <<"f", "4">>,
    <<"f", "5">>,
    <<"f", "6">>,
    <<"f", "7">>,
    <<"f", "8">>,
    <<"f", "9">>,
    <<"f", "1", "0">>,
    <<"f", "1", "1">>,
    <<"f", "1", "2">> }

\* Last segments that are no key name: empty, one ASCII character, several
\* characters, near misses of a key name, a modifier name, non-ASCII.
OtherKeySegments ==
  { <<>>,
    <<"a">>,
    <<"Z">>,
    <<"5">>,
    <<" ">>,
    <<"_">>,
    <<"a", "b">>,
    <<"f">>,
    <<"f", "0">>,
    <<"f", "1", "3">>,
    <<"E", "n", "t", "e", "r">>,
    <<"c", "t", "r", "l">>,
    <<"U+00E9">>,
    <<"U+20AC">>,
    <<"a", "U+00E9">> }

\* The six modifier names of from_str.
ModifierNames ==
  { <<"c", "t", "r", "l">>,
    <<"a", "l", "t">>,
    <<"s", "h", "i", "f", "t">>,
    <<"s", "u", "p", "e", "r">>,
    <<"m", "e", "t", "a">>,
    <<"h", "y", "p", "e", "r">> }

\* Segments before the last that are no modifier name.
OtherModifierSegments ==
  { <<>>,
    <<"C", "t", "r", "l">> }

KeySegments == NamedKeys \cup OtherKeySegments

ModifierSegments == ModifierNames \cup OtherModifierSegments

\* The lists of at most MaxMods segments that precede the last one.
ModifierLists == UNION {[1..n -> ModifierSegments] : n \in 0..MaxMods}

\* The pieces joined by '+': the string a caller writes
RECURSIVE Join(_)
Join(pieces) ==
  IF Len(pieces) = 1 THEN pieces[1]
  ELSE pieces[1] \o <<"+">> \o Join(Tail(pieces))

\* A caller holds a key-combination string that it has not parsed yet; no
\* Tui call is made, and the Tui is the one Tui::new builds.
InitEvent ==
  /\ TuiNew
  /\ iter_order = RegistrationOrder
  /\ app_context = [show_title_bar |-> TRUE, show_status_bar |-> TRUE]
  /\ segs \in {m \o <<k>> : m \in ModifierLists, k \in KeySegments}
  /\ input = Join(segs)
  /\ parsed = None
  /\ shown = None

\* `input.parse::<Event>()`
Parse ==
  /\ parsed = None
  /\ parsed' = Some(from_str(input))
  /\ UNCHANGED <<segs, input, shown, tui_vars>>

\* `event.to_string()` of the parsed event
Format ==
  /\ parsed # None
  /\ IsOk(parsed[1])
  /\ shown = None
  /\ shown' = Some(fmt(parsed[1][2]))
  /\ UNCHANGED <<segs, input, parsed, tui_vars>>

NextEvent == Parse \/ Format

EventSpec == InitEvent /\ [][NextEvent]_vars

\* ------------------------------------------------------------------------
\* Properties of the Tui (checked under Spec)
\* ------------------------------------------------------------------------

\* The names of the components a call visited, in the order of the calls.
Visited == [i \in 1..Len(trace) |-> trace[i][1]]

\* C1: a draw call that is presented the very frame content whose digest the
\* Tui holds makes no component call at all (no draw, no UpdateArea to the
\* StatusBar), computes no layout, changes no component and returns Ok.
C1_DrawSkip ==
  [][ (op' = "draw" /\ hashed_content # None /\ arg'[1] = hashed_content[1])
        => /\ trace' = <<>>
           /\ layout' = None
           /\ result' = Ok(Unit)
           /\ components' = components ]_vars

\* C1 happens: a draw call was presented the content whose digest was stored
\* and was skipped.
C1_Witness ==
  /\ op = "draw"
  /\ hashed_content = Some(arg[1])
  /\ trace = <<>>
  /\ result = Ok(Unit)

\* C2: handle_events calls handle_events of CoreWindow once, with the event
\* it was given, calls no other component, and returns what CoreWindow
\* returned.
C2_EventsReachCoreWindowOnly ==
  op = "handle_events"
    => /\ Len(trace) = 1
       /\ trace[1][1] = "CoreWindow"
       /\ trace[1][2] = "handle_events"
       /\ trace[1][3] = arg[1]
       /\ result = trace[1][4]

\* C2 happens: the event None was routed and CoreWindow's error came back.
C2_Witness ==
  /\ op = "handle_events"
  /\ arg[1] = None
  /\ Len(trace) = 1
  /\ result = Err(ComponentError("CoreWindow"))

\* C3: one update call delivers its action to each of TitleBar, CoreWindow
\* and StatusBar exactly once, and makes no other call.
C3_UpdateReachesEachOnce ==
  op = "update"
    => /\ Len(trace) = 3
       /\ \A n \in ComponentName :
            Cardinality({i \in 1..Len(trace) :
                           /\ trace[i][1] = n
                           /\ trace[i][2] = "update"
                           /\ trace[i][3] = arg[1]}) = 1

\* C3 happens: an action was broadcast to three components.
C3_Witness ==
  /\ op = "update"
  /\ arg[1] = <<"Quit">>
  /\ Range(Visited) = ComponentName

\* C4, as claimed: update visits the components in registration order,
\* TitleBar, CoreWindow, StatusBar.
C4_UpdateInRegistrationOrder == op = "update" => Visited = RegistrationOrder

\* C4, amended: update visits the components in the iteration order of the
\* HashMap that holds them, which is one of the orders of the three names
\* and need not be the registration order.
C4_UpdateInMapOrder ==
  op = "update" => (Visited = iter_order /\ Visited \in IterationOrders)

\* C4 happens: an update visited the components in an order that is not the
\* registration order.
C4_Witness ==
  /\ op = "update"
  /\ Visited = iter_order
  /\ Visited # RegistrationOrder

\* C5: in a draw that is not skipped, the header band is 3 high if
\* show_title_bar is set and the area is higher than SMALL_AREA_HEIGHT + 5,
\* else 0; the footer band likewise with show_status_bar; the body band has
\* the rest of the area's height. With show_title_bar unset, show_status_bar
\* set and height 40 the bands are 0, 37 and 3 high.
C5_LayoutBands ==
  (op = "draw" /\ layout # None)
    => LET area == arg[2]
           tall == area.height > SMALL_AREA_HEIGHT + 5
           header == IF app_context.show_title_bar /\ tall THEN 3 ELSE 0
           footer == IF app_context.show_status_bar /\ tall THEN 3 ELSE 0
           bands == layout[1]
       IN  /\ bands[1].height = header
           /\ bands[3].height = footer
           /\ bands[2].height = area.height - header - footer
           /\ area.height <= SMALL_AREA_HEIGHT + 5
                => (bands[1].height = 0 /\ bands[3].height = 0)
           /\ (~app_context.show_title_bar /\ app_context.show_status_bar
                 /\ area.height = 40)
                => <<bands[1].height, bands[2].height, bands[3].height>> = <<0, 37, 3>>

\* C5 happens: a full pass with show_title_bar unset, show_status_bar set
\* and an area 40 high computed its layout.
C5_Witness ==
  /\ op = "draw"
  /\ layout # None
  /\ ~app_context.show_title_bar
  /\ app_context.show_status_bar
  /\ arg[2].height = 40
  /\ layout[1][3].height = 3

\* C10: the registry holds exactly the components TitleBar, CoreWindow and
\* StatusBar after Tui::new and after every call, whether it succeeded or
\* failed, and no unwrap or panic on a missing component ever runs.
C10_RegistryFixed == DOMAIN components = ComponentName /\ ~panicked

\* C10 happens: a sender was registered, and a draw call failed, and the
\* three components are still there.
C10_Witness ==
  /\ op = "draw"
  /\ result[1] = "Err"
  /\ action_tx # None
  /\ DOMAIN components = ComponentName

\* ------------------------------------------------------------------------
\* Properties of the parser and the formatter (checked under EventSpec)
\* ------------------------------------------------------------------------

\* The segments of the input before the last one, and the last one.
InputModifiers == SubSeq(segs, 1, Len(segs) - 1)

InputKey == segs[Len(segs)]

\* C6, as claimed: the string of any one ASCII character c parses to
\* Ok(Key(Char(c), NONE)).
C6_SingleAsciiParses ==
  (parsed # None /\ Len(input) = 1 /\ is_ascii(input[1]))
    => parsed[1] = Ok(Key(Char(input[1]), NONE))

\* C7: two inputs with the same key segment whose modifier segments are the
\* same set, in any order and with any repetition, parse to the same result.
C7_ModifierFoldingCommutativeIdempotent ==
  parsed # None
    => \A n \in 0..(MaxMods + 1) :
         \A other \in [1..n -> Range(InputModifiers)] :
           Range(other) = Range(InputModifiers)
             => from_str(Join(other \o <<InputKey>>)) = parsed[1]

\* C7 happens: "alt+ctrl+a" was parsed, with both modifiers in the result.
C7_Witness ==
  /\ segs = << <<"a", "l", "t">>, <<"c", "t", "r", "l">>, <<"a">> >>
  /\ parsed = Some(Ok(Key(Char("a"), 6)))

\* C8: parse returns Ok if the last '+'-separated segment is one of the 28
\* key names or exactly one ASCII character, and otherwise fails with
\* InvalidEvent carrying that last segment.
C8_InvalidEventCarriesLastSegment ==
  parsed # None
    => IF InputKey \in NamedKeys \/ (Len(InputKey) = 1 /\ is_ascii(InputKey[1]))
       THEN IsOk(parsed[1])
       ELSE parsed[1] = Err(InvalidEvent(InputKey))

\* C8 happens: "meta+ab" failed with the segment "ab", not the whole input.
C8_Witness ==
  /\ input = <<"m", "e", "t", "a", "+", "a", "b">>
  /\ parsed = Some(Err(InvalidEvent(<<"a", "b">>)))

\* The modifier names with their first letter in upper case.
Capitalised(m) ==
  CASE m = <<"c", "t", "r", "l">> -> <<"C", "t", "r", "l">>
    [] m = <<"a", "l", "t">> -> <<"A", "l", "t">>
    [] m = <<"s", "h", "i", "f", "t">> -> <<"S", "h", "i", "f", "t">>
    [] m = <<"s", "u", "p", "e", "r">> -> <<"S", "u", "p", "e", "r">>
    [] m = <<"m", "e", "t", "a">> -> <<"M", "e", "t", "a">>
    [] m = <<"h", "y", "p", "e", "r">> -> <<"H", "y", "p", "e", "r">>

\* C9, as claimed: for a modifier name m and an ASCII character c, the input
\* m+c parses, and the parsed event is shown as the capitalised name, '+'
\* and c; a character key parsed with no modifier is shown as the character.
C9_SingleModifierRoundTrip ==
  /\ \A m \in ModifierNames :
       (/\ parsed # None
        /\ Len(input) = Len(m) + 2
        /\ SubSeq(input, 1, Len(m) + 1) = m \o <<"+">>
        /\ is_ascii(input[Len(input)]))
         => /\ IsOk(parsed[1])
            /\ shown # None => shown[1] = Capitalised(m) \o <<"+", input[Len(input)]>>
  /\ (/\ parsed # None
      /\ IsOk(parsed[1])
      /\ parsed[1][2][2][1] = "Char"
      /\ parsed[1][2][3] = NONE
      /\ shown # None)
       => shown[1] = <<parsed[1][2][2][2]>>

\* ------------------------------------------------------------------------
\* Registration and the draw pass (checked under Spec)
\* ------------------------------------------------------------------------

\* The draw calls among the component calls of the last Tui call.
DrawCalls == SelectSeq(trace, LAMBDA c : c[2] = "draw")

\* The component that owns each band of the layout, from top to bottom.
BandOwners == <<"TitleBar", "CoreWindow", "StatusBar">>

\* C11: register_action_handler is fail-fast. The hooks run on the
\* components in the map's order, each at most once and each with the
\* sender; every hook before the last one run returned Ok; if the last one
\* run returned Ok, all three components were visited, each holds the
\* sender and the call returned Ok; if it failed, the call returned its
\* error and no later component was visited.
C11_RegisterFailFast ==
  op = "register_action_handler" =>
    /\ Len(trace) >= 1
    /\ Visited = SubSeq(iter_order, 1, Len(trace))
    /\ \A i \in 1..Len(trace) :
         trace[i][2] = "register_action_handler" /\ trace[i][3] = arg[1]
    /\ \A i \in 1..(Len(trace) - 1) : trace[i][4] = Ok(Unit)
    /\ IF trace[Len(trace)][4] = Ok(Unit)
       THEN /\ Len(trace) = Cardinality(ComponentName)
            /\ \A n \in ComponentName : components[n].handle = Some(arg[1])
            /\ result = Ok(Unit)
       ELSE result = trace[Len(trace)][4]

\* C11 happens: the hook of the second component of the map failed, the
\* call returned its error and the third component was not visited.
C11_Witness ==
  /\ op = "register_action_handler"
  /\ Len(trace) = 2
  /\ result = Err(ComponentError(iter_order[2]))
  /\ components[iter_order[3]].handle = None

\* C12, as claimed: on every draw that is not skipped, CoreWindow's
\* with_small_area is called with `area.width < SMALL_AREA_WIDTH`, before
\* CoreWindow is drawn.
C12_SmallAreaBeforeCoreWindowDraw ==
  (op = "draw" /\ layout # None) =>
    \E i \in 1..Len(trace) :
      /\ trace[i][1] = "CoreWindow"
      /\ trace[i][2] = "with_small_area"
      /\ trace[i][3] = (arg[2].width < SMALL_AREA_WIDTH)
      /\ \A j \in 1..Len(trace) :
           (trace[j][1] = "CoreWindow" /\ trace[j][2] = "draw") => i < j

\* C13, as claimed: after every draw that returns Ok, the last UpdateArea
\* the StatusBar received carries the area of that call.
C13_AreaFreshAfterOkDraw ==
  (op = "draw" /\ result = Ok(Unit)) =>
    components["StatusBar"].area = Some(arg[2])

\* C13, corrected: after every draw that is not skipped, whether its draw
\* calls succeed or not, the last UpdateArea the StatusBar received carries
\* the area of that call. A skipped draw delivers none.
C13_AreaFreshAfterFullPass ==
  (op = "draw" /\ layout # None) =>
    components["StatusBar"].area = Some(arg[2])

\* C13 happens: a full pass over the lowest area returned Ok and the
\* StatusBar holds that area.
C13_Witness ==
  /\ op = "draw"
  /\ layout # None
  /\ result = Ok(Unit)
  /\ arg[2].height < SMALL_AREA_HEIGHT
  /\ components["StatusBar"].area = Some(arg[2])

\* C14: on every draw that is not skipped, UpdateArea(area) is delivered
\* once, as the first component call of the pass, to the update hook of the
\* StatusBar; no other update hook is called, so no other component gets
\* it, every draw call comes after it, and the Tui sends nothing through
\* action_tx.
C14_UpdateAreaToStatusBarOnly ==
  (op = "draw" /\ layout # None) =>
    /\ Len(trace) >= 2
    /\ trace[1][1] = "StatusBar"
    /\ trace[1][2] = "update"
    /\ trace[1][3] = UpdateArea(arg[2])
    /\ \A i \in 2..Len(trace) : trace[i][2] # "update"
    /\ \E i \in 2..Len(trace) : trace[i][2] = "draw"
    /\ channel = <<>>

\* C14 happens: a pass in which all three components were drawn, after the
\* one UpdateArea, with a sender registered.
C14_Witness ==
  /\ op = "draw"
  /\ layout # None
  /\ action_tx # None
  /\ Len(DrawCalls) = 3
  /\ Len(trace) = 4
  /\ trace[1] = Call("StatusBar", "update", UpdateArea(arg[2]), Unit)

\* C15: a draw that is not skipped draws the TitleBar into band 0, then the
\* CoreWindow into band 1, then the StatusBar into band 2, each at most
\* once; every draw call before the last one made returned Ok; if the last
\* one made failed, the pass returned its error and drew nothing after it,
\* and otherwise all three were drawn and the pass returned Ok.
C15_DrawInBandOrder ==
  (op = "draw" /\ layout # None) =>
    /\ Len(DrawCalls) \in 1..Len(BandOwners)
    /\ \A i \in 1..Len(DrawCalls) :
         /\ DrawCalls[i][1] = BandOwners[i]
         /\ DrawCalls[i][3] = layout[1][i]
    /\ \A i \in 1..(Len(DrawCalls) - 1) : DrawCalls[i][4] = Ok(Unit)
    /\ IF DrawCalls[Len(DrawCalls)][4] = Ok(Unit)
       THEN Len(DrawCalls) = Len(BandOwners) /\ result = Ok(Unit)
       ELSE result = DrawCalls[Len(DrawCalls)][4]

\* C15 happens: the TitleBar was drawn, the draw of the CoreWindow failed,
\* and the StatusBar was not drawn.
C15_Witness ==
  /\ op = "draw"
  /\ layout # None
  /\ Len(DrawCalls) = 2
  /\ DrawCalls[1] = Call("TitleBar", "draw", layout[1][1], Ok(Unit))
  /\ result = Err(ComponentError("CoreWindow"))

\* C16: after every draw that returns Ok, a digest is stored and it is the
\* digest of the frame content as it is on return (the content presented
\* when the pass was skipped, the content painted when it was not); and a
\* draw is skipped only after some full pass succeeded.
C16_StoredHashIsFrameHash ==
  /\ (op = "draw" /\ result = Ok(Unit)) =>
       /\ hash_frame # None
       /\ hash_frame[1] = Hash(IF layout = None THEN arg[1] ELSE hashed_content[1])
  /\ (op = "draw" /\ layout = None) => hashed_content # None

\* C16 happens: a draw was skipped for a frame with another content than
\* the one painted last, the digests being the same.
C16_Witness ==
  /\ op = "draw"
  /\ layout = None
  /\ result = Ok(Unit)
  /\ hashed_content # None
  /\ arg[1] # hashed_content[1]
  /\ hash_frame = Some(Hash(arg[1]))

\* C17, as claimed: for every area and flags, the body band is at least
\* SMALL_AREA_HEIGHT high and the heights of the three bands sum to the
\* height of the area.
C17_BodyAtLeastMinimum ==
  (op = "draw" /\ layout # None) =>
    /\ layout[1][2].height >= SMALL_AREA_HEIGHT
    /\ layout[1][1].height + layout[1][2].height + layout[1][3].height = arg[2].height

\* C17, corrected: for every area and flags the heights of the three bands
\* sum to the height of the area; the body band is at least
\* SMALL_AREA_HEIGHT high when the area is, and is the whole area when the
\* area is lower than that.
C17_BandsFillArea ==
  (op = "draw" /\ layout # None) =>
    /\ layout[1][1].height + layout[1][2].height + layout[1][3].height = arg[2].height
    /\ arg[2].height >= SMALL_AREA_HEIGHT => layout[1][2].height >= SMALL_AREA_HEIGHT
    /\ arg[2].height < SMALL_AREA_HEIGHT => layout[1][2].height = arg[2].height

\* C17 happens: a pass over an area lower than SMALL_AREA_HEIGHT, with both
\* bars switched on, whose body band is the whole area.
C17_Witness ==
  /\ op = "draw"
  /\ layout # None
  /\ app_context.show_title_bar
  /\ app_context.show_status_bar
  /\ arg[2].height < SMALL_AREA_HEIGHT
  /\ layout[1][2].height = arg[2].height

\* C19: a draw whose pass fails leaves the stored digest as it was, and the
\* StatusBar keeps the area of the UpdateArea that pass delivered.
C19_FailedDrawKeepsHashAndArea ==
  [][(op' = "draw" /\ result'[1] = "Err")
       => /\ hash_frame' = hash_frame
          /\ components'["StatusBar"].area = Some(arg'[2])]_vars

\* C19 happens: a pass failed while a digest was stored, and the StatusBar
\* holds the area of the failed pass.
C19_Witness ==
  /\ op = "draw"
  /\ result[1] = "Err"
  /\ hash_frame # None
  /\ components["StatusBar"].area = Some(arg[2])

\* C20: register_action_handler rolls nothing back and touches nothing
\* else: whatever the hooks return, action_tx holds the new sender and every
\* component whose hook returned Ok holds it too, and the stored digest and
\* the set of registered components are as before.
C20_RegisterNoRollback ==
  [][op' = "register_action_handler"
       => /\ action_tx' = Some(arg'[1])
          /\ \A i \in 1..Len(trace') :
               trace'[i][4] = Ok(Unit)
                 => components'[trace'[i][1]].handle = Some(arg'[1])
          /\ hash_frame' = hash_frame
          /\ DOMAIN components' = DOMAIN components]_vars

\* C20 happens: a registration failed at the third component of the map,
\* which holds no sender, while action_tx and the first two components hold
\* the sender, and a digest is stored.
C20_Witness ==
  /\ op = "register_action_handler"
  /\ result = Err(ComponentError(iter_order[3]))
  /\ action_tx = Some(arg[1])
  /\ components[iter_order[1]].handle = Some(arg[1])
  /\ components[iter_order[2]].handle = Some(arg[1])
  /\ components[iter_order[3]].handle = None
  /\ hash_frame # None

\* ------------------------------------------------------------------------
\* Unrecognized modifier names (checked under EventSpec)
\* ------------------------------------------------------------------------

\* The modifier segments that are one of the six modifier names.
RecognisedOnly(ms) == SelectSeq(ms, LAMBDA m : m \in ModifierNames)

\* C18: a segment before the last one that is not one of the six modifier
\* names is not an error and adds no modifier: the input parses to what the
\* input without those segments parses to; and an input without '+' that
\* parses has no modifier.
C18_UnknownModifiersIgnored ==
  parsed # None =>
    /\ parsed[1] = from_str(Join(RecognisedOnly(InputModifiers) \o <<InputKey>>))
    /\ (Len(segs) = 1 /\ IsOk(parsed[1])) => parsed[1][2][3] = NONE

\* C18 happens: "Ctrl+alt+a" was parsed, to the key a with ALT alone.
C18_Witness ==
  /\ segs = << <<"C", "t", "r", "l">>, <<"a", "l", "t">>, <<"a">> >>
  /\ parsed = Some(Ok(Key(Char("a"), ALT)))

====
